---- MODULE Spec2Model ----
(***************************************************************************)
(* A model of src/src/fifth.rs: a singly-linked queue whose head is an     *)
(* owning Option<Box<Node>> and whose tail is a raw, non-owning pointer.   *)
(*                                                                         *)
(* Boxes live in a heap of MaxAddr cells.  Box::new takes any free cell,   *)
(* so an address freed by pop can be handed out again by a later push.     *)
(* Option<X> is modelled as a sequence of length 0 (None) or 1 (Some).     *)
(* The raw pointer is an address, 0 being the null pointer.                *)
(***************************************************************************)
EXTENDS Integers, Sequences, FiniteSets, TLC

\* ------------------------------------------------------------- bounds
MaxAddr == 3
MaxElem == 2
MaxOps == 7
BasicsPushes == 5
BasicsOps == 12

Addr == 1..MaxAddr
Elem == 1..MaxElem

\* ------------------------------------------------------------- types
None == <<>>

Some(x) == <<x>>

null == 0

\* The content of a cell that holds no node.
Uninit == [elem |-> 0, next |-> None]

VARIABLES
    head,    \* List.head : Link<T>, None or Some(address of the first node)
    tail,    \* List.tail : *mut Node<T>, null or an address
    heap,    \* the memory cells: address -> Node {elem, next}
    live,    \* the addresses of the boxes that are allocated
    born,    \* history: for a live cell, the index in hist of the push that made it
    tailId,  \* history: the index in hist of the push that set tail (0: tail reset)
    hist,    \* history: the calls made so far, with what each returned
    status   \* "live": the list exists; "dropped": it went out of scope;
             \* "aborted": the process was ended by a failed allocation

vars == <<head, tail, heap, live, born, tailId, hist, status>>

\* ------------------------------------------------------------- List::new
\* The buggy variant: the tail starts as a non-null placeholder address.
NewDangling == [head |-> None, tail |-> 1]

New == [head |-> None, tail |-> null]

Init ==
    /\ head = New.head
    /\ tail = New.tail
    /\ heap = [a \in Addr |-> Uninit]
    /\ live = {}
    /\ born = [a \in Addr |-> 0]
    /\ tailId = 0
    /\ hist = <<>>
    /\ status = "live"

\* One entry of the history: the call, its argument, its result, the push
\* that made the node the result was taken from, and what head.is_none()
\* and tail.is_null() are when the call returns.
Entry(op, arg, r, src, h, t) ==
    [op |-> op, arg |-> arg, ret |-> r, src |-> src,
     headNone |-> (h = None), tailNull |-> (t = null)]

\* ------------------------------------------------------------- List::push
\* The buggy variant: the new node becomes the head whatever the tail is.
PushHeadAlways(h, t, raw_tail) == Some(raw_tail)

\* The buggy variant: the branch for the empty queue is missing.
PushHeadNever(h, t, raw_tail) == h

\* if !self.tail.is_null() { .. } else { self.head = Some(new_tail) }
PushHead(h, t, raw_tail) == IF t # null THEN h ELSE Some(raw_tail)

\* The buggy variant: the old tail is never linked to the new node.
PushHeapNoLink(hp, t, raw_tail) == hp

\* if !self.tail.is_null() { (*self.tail).next = Some(new_tail) } else { .. }
\* The write goes to the cell tail names, whatever that cell holds now.
PushHeap(hp, t, raw_tail) ==
    IF t # null THEN [hp EXCEPT ![t].next = Some(raw_tail)] ELSE hp

\* The buggy variant: a non-null tail is left where it was.
PushTailStale(t, raw_tail) == IF t # null THEN t ELSE raw_tail

\* self.tail = raw_tail;
PushTail(t, raw_tail) == raw_tail

Push(elem) ==
    \E a \in Addr \ live :                       \* Box::new(Node {..})
        LET new_tail == [elem |-> elem, next |-> None]
            raw_tail == a
            boxed    == [heap EXCEPT ![a] = new_tail]
        IN  /\ heap' = PushHeap(boxed, tail, raw_tail)
            /\ head' = PushHead(head, tail, raw_tail)
            /\ tail' = PushTail(tail, raw_tail)
            /\ live' = live \cup {a}
            /\ born' = [born EXCEPT ![a] = Len(hist) + 1]
            /\ tailId' = Len(hist) + 1
            /\ hist' = Append(hist, Entry("push", Some(elem), None, 0, head', tail'))
            /\ status' = status

\* The buggy variant: the tail is cleared before the allocation is tried.
PushOomAfterWrite(elem) ==
    /\ status' = "aborted"
    /\ tail' = null
    /\ tailId' = 0
    /\ hist' = Append(hist, Entry("abort", Some(elem), None, 0, head, null))
    /\ UNCHANGED <<head, heap, live, born>>

\* Box::new finds no memory: the allocation error handler ends the process
\* there, in the first statement of push, and nothing after it runs.
PushOom(elem) ==
    /\ status' = "aborted"
    /\ hist' = Append(hist, Entry("abort", Some(elem), None, 0, head, tail))
    /\ UNCHANGED <<head, tail, heap, live, born, tailId>>

\* ------------------------------------------------------------- List::pop
\* The buggy variant: the tail is left alone when the last node goes.
PopTailKeep(newHead, t) == t

\* The buggy variant: the tail is reset at every pop that takes a node.
PopTailReset(newHead, t) == null

\* if self.head.is_none() { self.tail = ptr::null_mut(); }
PopTail(newHead, t) == IF newHead = None THEN null ELSE t

Pop ==
    IF head = None
    THEN /\ hist' = Append(hist, Entry("pop", None, None, 0, head, tail))
         /\ UNCHANGED <<head, tail, heap, live, born, tailId, status>>
    ELSE LET h    == head[1]
             node == heap[h]                     \* let head = *head;
         IN  /\ head' = node.next                \* self.head = head.next;
             /\ tail' = PopTail(node.next, tail)
             /\ heap' = [heap EXCEPT ![h] = Uninit]
             /\ live' = live \ {h}
             /\ born' = [born EXCEPT ![h] = 0]
             /\ tailId' = IF tail' = null THEN 0 ELSE tailId
             /\ hist' = Append(hist,
                    Entry("pop", None, Some(node.elem), born[h], head', tail'))
             /\ status' = status

\* ------------------------------------------------------------- callers
\* Any caller: every interleaving of push and pop, with any values.
PushAny == status = "live" /\ Len(hist) < MaxOps /\ \E v \in Elem : Push(v)

PopAny == status = "live" /\ Len(hist) < MaxOps /\ Pop

Next == PushAny \/ PopAny

Spec == Init /\ [][Next]_vars

\* The number of push calls made so far.
Pushes == Cardinality({i \in 1..Len(hist) : hist[i].op = "push"})

\* A caller that, like test::basics, pushes 1, 2, 3, ... in this order, with
\* pops in between at any place.
PushCounted ==
    /\ status = "live"
    /\ Len(hist) < BasicsOps /\ Pushes < BasicsPushes
    /\ Push(Pushes + 1)

PopCounted == status = "live" /\ Len(hist) < BasicsOps /\ Pop

NextBasics == PushCounted \/ PopCounted

SpecBasics == Init /\ [][NextBasics]_vars

\* ------------------------------------------------------------- the chain
\* The addresses met by following next links from a link, at most fuel of them.
RECURSIVE Walk(_, _)
Walk(link, fuel) ==
    IF link = None \/ fuel = 0
    THEN <<>>
    ELSE <<link[1]>> \o Walk(heap[link[1]].next, fuel - 1)

\* The chain the list owns, from the head.  A chain of more than MaxAddr
\* addresses repeats one: it is a cycle.
Chain == Walk(head, MaxAddr + 1)

ChainSet == {Chain[i] : i \in 1..Len(Chain)}

\* The owning links that hold node a: the head slot and the next links of
\* the allocated nodes.  The tail is a raw pointer and owns nothing.
Owners(a) ==
    (IF head = Some(a) THEN {0} ELSE {}) \cup {b \in live : heap[b].next = Some(a)}

\* ------------------------------------------------------------- drop
\* The buggy variant: only the box in the head slot is freed.
DropFreedHeadOnly == IF head = None THEN {} ELSE {head[1]}

\* The boxes the drop of a List frees: List has no Drop of its own, so its
\* fields are dropped; head drops its box, whose node drops its next, and
\* so on along the owning links.  The raw pointer tail drops nothing.
DropFreed == ChainSet

\* The list goes out of scope.
DropList ==
    /\ status = "live"
    /\ Len(hist) < MaxOps
    /\ status' = "dropped"
    /\ live' = live \ DropFreed
    /\ heap' = [a \in Addr |-> IF a \in DropFreed THEN Uninit ELSE heap[a]]
    /\ born' = [a \in Addr |-> IF a \in DropFreed THEN 0 ELSE born[a]]
    /\ hist' = Append(hist, Entry("drop", None, None, 0, head, tail))
    /\ UNCHANGED <<head, tail, tailId>>

\* A push whose allocation fails, at any moment and with any value.
PushOomAny ==
    /\ status = "live"
    /\ Len(hist) < MaxOps
    /\ \E v \in Elem : PushOom(v)

\* A caller that also lets the list go out of scope, and a machine that may
\* run out of memory.
NextLife == PushAny \/ PopAny \/ PushOomAny \/ DropList

SpecLife == Init /\ [][NextLife]_vars

\* ------------------------------------------------------------- the history
IsPush(i) == hist[i].op = "push"

IsPop(i) == hist[i].op = "pop"

\* A pop that returned Some(_).
IsTake(i) == IsPop(i) /\ hist[i].ret # None

\* The number of elements put in and not yet taken out, counted on the calls.
Size == Pushes - Cardinality({i \in 1..Len(hist) : IsTake(i)})

\* The step just taken was a call of push, respectively of pop.
PushStep == hist' # hist /\ hist'[Len(hist')].op = "push"

PopStep == hist' # hist /\ hist'[Len(hist')].op = "pop"

\* ------------------------------------------------------------- claims

\* C1: under any interleaving of push and pop, an element is returned by pop
\* only when every element pushed before it has already been returned: the
\* value returned is the value of the push it stems from, and every earlier
\* push has been taken out by an earlier pop.
C1_FifoAmongPresent ==
    \A j \in 1..Len(hist) :
        IsTake(j) =>
            LET b == hist[j].src
            IN  /\ b \in 1..(j - 1)
                /\ IsPush(b)
                /\ hist[j].ret = hist[b].arg
                /\ \A a \in 1..(b - 1) :
                       IsPush(a) => \E k \in 1..(j - 1) : IsTake(k) /\ hist[k].src = a

\* A pop takes an element out while a later one stays, after a pop and then
\* a push have already happened.
C1_Witness ==
    \E i, j, k \in 1..Len(hist) :
        /\ i < j /\ j < k
        /\ IsTake(i) /\ IsPush(j) /\ IsTake(k)
        /\ ~hist[k].headNone

\* C2: from a new queue, N pushes followed by pops return the pushed values
\* in the order they were pushed, each in Some: the m-th pop returns the
\* m-th pushed value, up to the N-th.
C2_PushesThenPops ==
    \A n \in 0..Len(hist) :
        ( /\ Len(hist) <= 2 * n
          /\ \A i \in 1..Len(hist) : IF i <= n THEN IsPush(i) ELSE IsPop(i) )
        => \A m \in 1..(Len(hist) - n) :
               /\ hist[n + m].ret = hist[m].arg
               /\ hist[n + m].ret # None

\* Three pushes, not all of one value, followed by three pops.
C2_Witness ==
    /\ Len(hist) = 6
    /\ \A i \in 1..3 : IsPush(i) /\ IsPop(3 + i)
    /\ hist[1].arg # hist[2].arg

\* C3: head is None exactly when tail is null, and exactly when the queue
\* holds no element (no node is allocated, and as many elements were taken
\* out as were put in).
C3_EmptyIffBoth ==
    /\ (head = None) <=> (tail = null)
    /\ (head = None) <=> (live = {})
    /\ (head = None) <=> (Size = 0)

\* The queue is empty again after an element was taken out of it.
C3_Witness ==
    /\ head = None
    /\ \E i \in 1..Len(hist) : IsTake(i)

\* C4: when the queue is not empty, following next links from the head ends
\* after at most as many steps as there are nodes, at the node tail points
\* to, and the next link of that node is None.
C4_HeadReachesTail ==
    head # None =>
        /\ Len(Chain) <= Cardinality(live)
        /\ tail = Chain[Len(Chain)]
        /\ heap[tail].next = None

\* A chain of two nodes or more, after pops and a later push.
C4_Witness ==
    /\ Len(Chain) >= 2
    /\ \E i, j \in 1..Len(hist) : i < j /\ IsTake(i) /\ IsPush(j)

\* C5: whenever push finds tail non-null and writes through it, tail names a
\* node of the chain that is allocated and is the very node tail was set to:
\* it has not been popped since.
C5_TailDerefLive ==
    [][ (PushStep /\ tail # null) =>
            /\ tail \in live
            /\ tail \in ChainSet
            /\ born[tail] = tailId ]_vars

\* A push that found tail non-null, after a node had been popped and freed.
C5_Witness ==
    \E i, j \in 1..Len(hist) :
        /\ i < j /\ j > 1
        /\ IsTake(i) /\ IsPush(j)
        /\ ~hist[j - 1].tailNull

\* C6: a pop on an empty queue returns None and changes nothing: head stays
\* None, tail stays null, the heap and the allocated nodes are as before, and
\* the invariants of the structure hold afterwards.  One such pop leaves the
\* queue empty again, so any number of them in a row behave alike.
C6_PopEmptyNoOp ==
    [][ (PopStep /\ head = None) =>
            /\ hist'[Len(hist')].ret = None
            /\ head' = None /\ tail' = null
            /\ UNCHANGED <<head, tail, heap, live>>
            /\ C3_EmptyIffBoth' /\ C4_HeadReachesTail' ]_vars

\* A pop on the new queue, then, once the queue has been filled and drained,
\* two pops in a row.
C6_Witness ==
    /\ Len(hist) >= 1 /\ IsPop(1) /\ hist[1].ret = None
    /\ \E i \in 1..Len(hist) :
           /\ i + 2 <= Len(hist)
           /\ IsTake(i) /\ hist[i].headNone
           /\ IsPop(i + 1) /\ IsPop(i + 2)
           /\ hist[i + 1].ret = None /\ hist[i + 2].ret = None

\* C7: whenever a pop leaves the queue without elements, tail is null, and
\* a push(v) that follows, followed at once by a pop, gives Some(v), and a
\* further pop gives None.
C7_ReusableAfterDrain ==
    \A i \in 1..Len(hist) :
        (IsPop(i) /\ hist[i].headNone) =>
            /\ hist[i].tailNull
            /\ (i + 2 <= Len(hist) /\ IsPush(i + 1) /\ IsPop(i + 2)) =>
                   /\ hist[i + 2].ret = hist[i + 1].arg
                   /\ hist[i + 2].ret # None
                   /\ (i + 3 <= Len(hist) /\ IsPop(i + 3)) => hist[i + 3].ret = None

\* The queue held two elements, was drained, and was used again: push, pop, pop.
C7_Witness ==
    \E i \in 2..Len(hist) :
        /\ i + 3 <= Len(hist)
        /\ IsTake(i - 1) /\ IsTake(i) /\ hist[i].headNone
        /\ IsPush(i + 1) /\ IsPop(i + 2) /\ IsPop(i + 3)

\* C8: new() gives head None and tail null, with no node allocated, and a
\* pop as the first call on it returns None.
C8_NewIsEmpty ==
    /\ hist = <<>> => (head = None /\ tail = null /\ live = {})
    /\ (Len(hist) >= 1 /\ IsPop(1)) => hist[1].ret = None

\* The first call on a new queue was a pop.
C8_Witness == Len(hist) = 1 /\ IsPop(1)

\* The calls of the scenario, each by its argument: Some(v) is push(v), None
\* is pop.
BasicsCalls ==
    << Some(1), Some(2), Some(3), None, None, Some(4), Some(5),
       None, None, None, None >>

\* What the scenario's calls return; a push returns nothing.
BasicsRets ==
    << None, None, None, Some(1), Some(2), None, None,
       Some(3), Some(4), Some(5), None >>

\* The calls made so far are the first calls of the scenario.
FollowsBasics ==
    /\ Len(hist) <= Len(BasicsCalls)
    /\ \A i \in 1..Len(hist) :
           /\ hist[i].arg = BasicsCalls[i]
           /\ IsPush(i) <=> (BasicsCalls[i] # None)

\* C9: from a new queue, push 1, 2, 3, pop, pop, push 4, 5, then four pops:
\* the six pops return Some(1), Some(2), Some(3), Some(4), Some(5), None.
C9_BasicsScenario ==
    FollowsBasics => \A i \in 1..Len(hist) : hist[i].ret = BasicsRets[i]

\* The whole scenario has run.
C9_Witness == FollowsBasics /\ Len(hist) = Len(BasicsCalls)

\* C10: every allocated node is held by exactly one owning link, the head
\* slot or the next link of one allocated node; no node is reached from
\* itself along next links; and the nodes held through head and next links
\* are all the allocated nodes, so that tail holds none.
C10_ExclusiveAcyclic ==
    /\ \A a \in live : Cardinality(Owners(a)) = 1
    /\ \A a \in live :
           LET after == Walk(heap[a].next, MaxAddr + 1)
           IN  \A i \in 1..Len(after) : after[i] # a
    /\ live = ChainSet
    /\ Len(Chain) = Cardinality(live)

\* Three nodes are allocated at once, after a pop has freed a node.
C10_Witness ==
    /\ Cardinality(live) >= 3
    /\ \E i \in 1..Len(hist) : IsTake(i)

\* The entry of the call just made.
Last == hist'[Len(hist')]

\* C11: a node is made exactly by a push and freed exactly by a pop that
\* returns an element or by the drop of the list.  While the list exists the
\* allocated nodes are the nodes reached from head, as many as pushes minus
\* pops that returned Some; once the list is dropped no node is allocated.
C11_NodeLifecycle ==
    /\ [](status # "dropped" => (live = ChainSet /\ Cardinality(live) = Size))
    /\ [](status = "dropped" => live = {})
    /\ [][ hist' # hist =>
             CASE Last.op = "push" ->
                      \E a \in Addr \ live : live' = live \cup {a}
               [] Last.op = "pop" /\ Last.ret # None ->
                      /\ head[1] \in live
                      /\ live' = live \ {head[1]}
               [] Last.op = "pop" /\ Last.ret = None -> live' = live
               [] Last.op = "drop" -> live' = {}
               [] OTHER -> live' = live ]_vars

\* The list was dropped while it held two elements or more, after a pop had
\* taken one out.
C11_Witness ==
    /\ status = "dropped"
    /\ Size >= 2
    /\ \E i \in 1..Len(hist) : IsTake(i)

\* C12: when the allocation of the new node fails, push ends the process and
\* leaves the queue as it was before the call: head, tail, every node and
\* the set of allocated nodes are unchanged, the structure is still
\* consistent, and nothing runs afterwards.
C12_OomKeepsState ==
    /\ [][ (hist' # hist /\ Last.op = "abort") =>
             /\ status' = "aborted"
             /\ UNCHANGED <<head, tail, heap, live>>
             /\ C3_EmptyIffBoth' /\ C4_HeadReachesTail' /\ C10_ExclusiveAcyclic' ]_vars
    /\ [][ status = "aborted" => UNCHANGED vars ]_vars

\* An allocation failed while the queue held two elements or more, after a
\* pop had taken one out.
C12_Witness ==
    /\ status = "aborted"
    /\ Cardinality(live) >= 2
    /\ \E i \in 1..Len(hist) : IsTake(i)

\* C13: a pop on a queue of exactly one node returns the element of that
\* node, sets head to None and in the same step resets tail to null; in no
\* reachable state is head None while tail is not null.
C13_PopLastResetsTail ==
    /\ [](head = None => tail = null)
    /\ [][ (PopStep /\ head # None /\ heap[head[1]].next = None) =>
             /\ Last.ret = Some(heap[head[1]].elem)
             /\ head' = None
             /\ tail' = null ]_vars

\* A pop took the last node out, after an earlier pop had left nodes behind.
C13_Witness ==
    \E i, j \in 1..Len(hist) :
        /\ i < j
        /\ IsTake(i) /\ ~hist[i].headNone
        /\ IsTake(j) /\ hist[j].headNone

\* C14: a pop on a queue of two nodes or more returns the element of the
\* head node, makes the former second node the head, and leaves alone the
\* tail pointer and every remaining node, its element and its next link.
C14_PopFrame ==
    [][ (PopStep /\ head # None /\ heap[head[1]].next # None) =>
            LET h == head[1]
            IN  /\ Last.ret = Some(heap[h].elem)
                /\ head' = heap[h].next
                /\ tail' = tail
                /\ live' = live \ {h}
                /\ \A a \in live \ {h} : heap'[a] = heap[a] ]_vars

\* The call just made is a pop that took a node out and left two behind.
C14_Witness ==
    /\ Len(hist) >= 1
    /\ IsTake(Len(hist))
    /\ Cardinality(live) >= 2

\* C15: a push on a non-empty queue links the new node as the next of the
\* node tail pointed to and sets tail to the new node; head is unchanged,
\* the element of every node that was there is unchanged, and no next link
\* changes but that of the old tail node.
C15_PushFrame ==
    [][ (PushStep /\ head # None) =>
            /\ tail' \in Addr \ live
            /\ heap'[tail].next = Some(tail')
            /\ heap'[tail'] = [elem |-> Last.arg[1], next |-> None]
            /\ head' = head
            /\ \A a \in live : heap'[a].elem = heap[a].elem
            /\ \A a \in live \ {tail} : heap'[a].next = heap[a].next ]_vars

\* The call just made is a push that made the queue three long, after a pop
\* had taken a node out.
C15_Witness ==
    /\ Len(hist) >= 1
    /\ IsPush(Len(hist))
    /\ Cardinality(live) >= 3
    /\ \E i \in 1..Len(hist) : IsTake(i)

\* C16: a push on an empty queue makes the new node the head and the node
\* tail points to: head owns a node that holds the pushed value and whose
\* next is None, and tail points to that node.
C16_PushOnEmpty ==
    [][ (PushStep /\ head = None) =>
            /\ head' # None
            /\ head'[1] \in Addr \ live
            /\ heap'[head'[1]] = [elem |-> Last.arg[1], next |-> None]
            /\ tail' = head'[1] ]_vars

\* A push on a queue that a pop had just drained.
C16_Witness ==
    \E i \in 2..Len(hist) :
        /\ IsPush(i)
        /\ IsTake(i - 1) /\ hist[i - 1].headNone

\* The abstract queue after the first n calls: a push appends its value, a
\* pop removes the first value if there is one.
RECURSIVE Abs(_)
Abs(n) ==
    IF n = 0
    THEN <<>>
    ELSE LET q == Abs(n - 1)
         IN  IF IsPush(n) THEN Append(q, hist[n].arg[1])
             ELSE IF IsPop(n) /\ q # <<>> THEN Tail(q)
             ELSE q

\* The elements read by following next links from head.
Elems == [i \in 1..Len(Chain) |-> heap[Chain[i]].elem]

\* C17: the linked queue behaves as the abstract queue run beside it: after
\* every sequence of calls the elements read along the chain are the
\* abstract queue's, and every pop returned Some of the abstract queue's
\* first value, or None exactly when the abstract queue was empty.
C17_RefinesSequence ==
    /\ Len(Elems) = Len(Abs(Len(hist)))
    /\ \A i \in 1..Len(Elems) : Elems[i] = Abs(Len(hist))[i]
    /\ \A n \in 1..Len(hist) :
           IsPop(n) =>
               hist[n].ret = IF Abs(n - 1) = <<>> THEN None ELSE Some(Head(Abs(n - 1)))

\* The chain holds two different values, after a pop that took an element
\* out and a pop that found the queue empty.
C17_Witness ==
    /\ Len(Chain) >= 2
    /\ Elems[1] # Elems[2]
    /\ \E i, j \in 1..Len(hist) : IsTake(i) /\ IsPop(j) /\ hist[j].ret = None

\* The index in the history of the latest push, 0 when there was none.
LastPush ==
    LET S == {i \in 1..Len(hist) : IsPush(i)}
    IN  IF S = {} THEN 0 ELSE CHOOSE i \in S : \A j \in S : j <= i

\* C18: when the queue is not empty, tail points to the node made by the
\* latest push, which holds the value pushed then, however many pops came
\* after it; so a push that writes through tail writes a next link that is
\* None, and every node allocated before stays allocated and on the chain.
C18_TailIsLatestPush ==
    /\ [](head # None =>
             /\ LastPush >= 1
             /\ tail \in live
             /\ born[tail] = LastPush
             /\ Some(heap[tail].elem) = hist[LastPush].arg)
    /\ [][ (PushStep /\ tail # null) =>
             /\ heap[tail].next = None
             /\ live' = live \cup {tail'}
             /\ ChainSet' = ChainSet \cup {tail'} ]_vars

\* Two pops came after the latest push and the queue is still not empty.
C18_Witness ==
    /\ head # None
    /\ LastPush >= 1
    /\ LastPush + 2 <= Len(hist)
    /\ IsTake(LastPush + 1) /\ IsTake(LastPush + 2)

====
